---- MODULE Spec2Model ----
(***************************************************************************)
(* A model of the notebook AIND-Constraint_Satisfaction.ipynb: four puzzles *)
(* (cryptarithmetic, map colouring, N-Queens, Sudoku) encoded as integer   *)
(* constraints, handed to a Z3 Solver, and rendered from the model the     *)
(* solver returns.  The state is the kernel's state (the solver objects,   *)
(* the benchmark's lists, the text each cell printed, the exception that   *)
(* stopped the run); one action per code cell (per iteration for the       *)
(* benchmark loop).  The solver is the external collaborator: check() is   *)
(* modelled by its contract (sat with some satisfying assignment, unsat    *)
(* when there is none, or unknown).                                        *)
(***************************************************************************)
EXTENDS Integers, Sequences, FiniteSets, TLC

VARIABLES pc, ca_solver, mc_solver, sizes, loop_i, nq_solver, solutions,
          s_solver, stdout, error,
          eval_in, eval_out

vars == <<pc, ca_solver, mc_solver, sizes, loop_i, nq_solver, solutions,
          s_solver, stdout, error, eval_in, eval_out>>

\* eval_in and eval_out are the argument and the result of an encoding
\* function evaluated on its own (SpecEncodings); no cell touches them.
harness == <<eval_in, eval_out>>

(***************************************************************************)
(* Bounds of the model.  Z3's Int is unbounded: the search for satisfying  *)
(* assignments looks at the window -NegInt .. MaxInt, which holds every    *)
(* declared domain of the notebook (0..9, 0..2, 1..N, 1..9) with room on   *)
(* both sides.  The benchmark's board sizes are drawn from 1..MaxN, in     *)
(* lists of at most MaxSizes entries.                                      *)
(***************************************************************************)
MaxInt == 10
NegInt == 1
MaxN == 5
MaxSizes == 2

Window == (0 - NegInt)..MaxInt

(***************************************************************************)
(* Python's sequence indexing, with its negative indices.                  *)
(***************************************************************************)
PyIndex(s, i) == IF i >= 0 THEN s[i + 1] ELSE s[Len(s) + i + 1]

(***************************************************************************)
(* The Z3 expressions the notebook builds, as records.  A linear sum is a  *)
(* sequence of <<coefficient, variable>> terms.                            *)
(***************************************************************************)
Lb(c, v) == [k |-> "lb", c |-> c, v |-> v]                \* c <= v
Ub(v, c) == [k |-> "ub", v |-> v, c |-> c]                \* v <= c
AndRange(lo, v, hi) == [k |-> "range", lo |-> lo, v |-> v, hi |-> hi]
NeqConst(v, c) == [k |-> "nec", v |-> v, c |-> c]         \* v != c
Neq(a, b) == [k |-> "ne", a |-> a, b |-> b]               \* a != b
Distinct(vs) == [k |-> "distinct", vs |-> vs]
LinEq(lhs, rhs) == [k |-> "eq", lhs |-> lhs, rhs |-> rhs] \* sum lhs == sum rhs
IfDiag(i, j, a, b) == [k |-> "diag", i |-> i, j |-> j, a |-> a, b |-> b]
IfGiven(given, v) == [k |-> "fix", given |-> given, v |-> v]
EqConst(v, c) == [k |-> "eqc", v |-> v, c |-> c]          \* v == c

RECURSIVE SumTerms(_, _)
SumTerms(ts, m) ==
  IF ts = <<>> THEN 0
  ELSE Head(ts)[1] * m[Head(ts)[2]] + SumTerms(Tail(ts), m)

SeqSet(s) == {s[i] : i \in DOMAIN s}

\* The variables an expression mentions.
VarsOf(c) ==
  CASE c.k \in {"lb", "ub", "range", "nec", "fix", "eqc"} -> {c.v}
    [] c.k \in {"ne", "diag"} -> {c.a, c.b}
    [] c.k = "distinct" -> SeqSet(c.vs)
    [] c.k = "eq" -> {t[2] : t \in SeqSet(c.lhs)} \cup {t[2] : t \in SeqSet(c.rhs)}

\* The truth value of an expression under an assignment m of its variables.
Holds(c, m) ==
  CASE c.k = "lb" -> c.c <= m[c.v]
    [] c.k = "ub" -> m[c.v] <= c.c
    [] c.k = "range" -> c.lo <= m[c.v] /\ m[c.v] <= c.hi
    [] c.k = "nec" -> m[c.v] # c.c
    [] c.k = "ne" -> m[c.a] # m[c.b]
    [] c.k = "distinct" ->
         \A i, j \in DOMAIN c.vs : i < j => m[c.vs[i]] # m[c.vs[j]]
    [] c.k = "eq" -> SumTerms(c.lhs, m) = SumTerms(c.rhs, m)
    [] c.k = "diag" ->
         IF c.i = c.j THEN TRUE
         ELSE m[c.a] - m[c.b] # c.i - c.j /\ m[c.a] - m[c.b] # c.j - c.i
    [] c.k = "fix" -> IF c.given = 0 THEN TRUE ELSE m[c.v] = c.given
    [] c.k = "eqc" -> m[c.v] = c.c

(***************************************************************************)
(* The solver's search.  A partial assignment p already falsifies c when   *)
(* c's variables are all assigned and c is false, or when two assigned     *)
(* variables of a Distinct are equal.                                      *)
(***************************************************************************)
Violated(c, p) ==
  IF c.k = "distinct"
  THEN \E i, j \in DOMAIN c.vs :
         /\ i < j
         /\ c.vs[i] \in DOMAIN p
         /\ c.vs[j] \in DOMAIN p
         /\ p[c.vs[i]] = p[c.vs[j]]
  ELSE VarsOf(c) \subseteq DOMAIN p /\ ~Holds(c, p)

EmptyModel == [v \in {} |-> 0]

\* The variables of a sequence of expressions, in the order of their first
\* appearance.
VarSeqOf(c) ==
  CASE c.k \in {"lb", "ub", "range", "nec", "fix", "eqc"} -> <<c.v>>
    [] c.k \in {"ne", "diag"} -> <<c.a, c.b>>
    [] c.k = "distinct" -> c.vs
    [] c.k = "eq" -> [i \in DOMAIN c.lhs |-> c.lhs[i][2]]
                     \o [i \in DOMAIN c.rhs |-> c.rhs[i][2]]

\* The concatenation of the sequences ss[lo], ..., ss[hi].
RECURSIVE FlattenRange(_, _, _)
FlattenRange(ss, lo, hi) ==
  IF lo > hi THEN <<>>
  ELSE IF lo = hi THEN ss[lo]
  ELSE LET mid == (lo + hi) \div 2
       IN  FlattenRange(ss, lo, mid) \o FlattenRange(ss, mid + 1, hi)

Flatten(ss) == FlattenRange(ss, 1, Len(ss))

\* s without the repetitions of its elements, first appearances kept.
Dedup(s) ==
  LET idx == [i \in DOMAIN s |-> i]
      First(i) == \A j \in 1..(i - 1) : s[j] # s[i]
      sel == SelectSeq(idx, First)
  IN  [n \in DOMAIN sel |-> s[sel[n]]]

VarOrder(A) == Dedup(Flatten([i \in DOMAIN A |-> VarSeqOf(A[i])]))

IsGiven(c) == c.k = "fix" /\ c.given # 0

IsEquation(c) == c.k = "eq"

\* The assignment the givens force (unit propagation).
Givens(A) ==
  LET G == SelectSeq(A, IsGiven)
  IN  [v \in {G[i].v : i \in DOMAIN G} |->
         G[CHOOSE i \in DOMAIN G : G[i].v = v].given]

\* The order in which the search assigns the other variables: those of the
\* equations first.  The order does not change the set found.
SearchOrder(A) ==
  LET given == DOMAIN Givens(A)
      Free(v) == v \notin given
  IN  SelectSeq(VarOrder(SelectSeq(A, IsEquation) \o A), Free)

\* The partial assignments p extended by every value of v that falsifies no
\* expression of A.
Extend(A, p, v) ==
  LET rel == {i \in DOMAIN A : v \in VarsOf(A[i])}
  IN  {p @@ (v :> x) : x \in {y \in Window :
                                 \A i \in rel : ~Violated(A[i], p @@ (v :> y))}}

\* Every assignment (within the window) of the variables of the assertions A
\* that satisfies all of A: the models check() may answer sat with.
Models(A) ==
  LET order == SearchOrder(A)
      p0 == Givens(A)
      level[n \in 0..Len(order)] ==
        IF n = 0
        THEN IF \E i \in DOMAIN A : Violated(A[i], p0) THEN {} ELSE {p0}
        ELSE UNION {Extend(A, p, order[n]) : p \in level[n - 1]}
  IN  level[Len(order)]

(***************************************************************************)
(* I. Cryptarithmetic: the expressions each cell adds to ca_solver.        *)
(***************************************************************************)
variables == <<"O", "R", "T", "U", "W">>
z3_vars == variables

\* ca_solver.add(0 <= F, F <= 9); [ca_solver.add(0 <= y, y <= 9) for y in z3_vars]
RECURSIVE DigitBounds(_)
DigitBounds(ys) ==
  IF ys = <<>> THEN <<>>
  ELSE <<Lb(0, Head(ys)), Ub(Head(ys), 9)>> \o DigitBounds(Tail(ys))

Cell5Adds == <<Lb(0, "F"), Ub("F", 9)>> \o DigitBounds(z3_vars)

\* Cell7Adds without F != 0.
Cell7AddsLeadingTOnly ==
  <<NeqConst(PyIndex(z3_vars, 2), 0)>>
  \o <<Neq(PyIndex(z3_vars, 2), PyIndex(z3_vars, -1)),
       Neq(PyIndex(z3_vars, -1), PyIndex(z3_vars, 0)),
       Neq("F", PyIndex(z3_vars, 0)),
       Neq(PyIndex(z3_vars, 0), PyIndex(z3_vars, -2)),
       Neq(PyIndex(z3_vars, -2), PyIndex(z3_vars, 1))>>

\* The leading digits, then the "Distinct" inequalities of the cell.
Cell7Adds ==
  <<NeqConst(PyIndex(z3_vars, 2), 0), NeqConst("F", 0)>>
  \o <<Neq(PyIndex(z3_vars, 2), PyIndex(z3_vars, -1)),
       Neq(PyIndex(z3_vars, -1), PyIndex(z3_vars, 0)),
       Neq("F", PyIndex(z3_vars, 0)),
       Neq(PyIndex(z3_vars, 0), PyIndex(z3_vars, -2)),
       Neq(PyIndex(z3_vars, -2), PyIndex(z3_vars, 1))>>

\* Cell9Adds with the carry into the tens column forgotten.
Cell9AddsNoCarry ==
  <<LinEq(<<<<1, "O">>, <<1, "O">>>>, <<<<1, "R">>, <<10, "carry_1">>>>),
    LinEq(<<<<10, "W">>, <<10, "W">>>>, <<<<10, "U">>, <<100, "carry_2">>>>),
    LinEq(<<<<100, "carry_2">>, <<100, "T">>, <<100, "T">>>>,
          <<<<100, "O">>, <<1000, "carry_3">>>>),
    LinEq(<<<<1, "carry_3">>>>, <<<<1, "F">>>>)>>

\* Cell9Adds with the carry out of the hundreds column weighted 100.
Cell9AddsWrongWeight ==
  <<LinEq(<<<<1, "O">>, <<1, "O">>>>, <<<<1, "R">>, <<10, "carry_1">>>>),
    LinEq(<<<<10, "carry_1">>, <<10, "W">>, <<10, "W">>>>,
          <<<<10, "U">>, <<100, "carry_2">>>>),
    LinEq(<<<<100, "carry_2">>, <<100, "T">>, <<100, "T">>>>,
          <<<<100, "O">>, <<100, "carry_3">>>>),
    LinEq(<<<<1, "carry_3">>>>, <<<<1, "F">>>>)>>

\* The carry chain, one equation per column.
Cell9Adds ==
  <<LinEq(<<<<1, PyIndex(z3_vars, 0)>>, <<1, PyIndex(z3_vars, 0)>>>>,
          <<<<1, PyIndex(z3_vars, 1)>>, <<10, "carry_1">>>>),
    LinEq(<<<<10, "carry_1">>, <<10, PyIndex(z3_vars, -1)>>,
            <<10, PyIndex(z3_vars, -1)>>>>,
          <<<<10, PyIndex(z3_vars, -2)>>, <<100, "carry_2">>>>),
    LinEq(<<<<100, "carry_2">>, <<100, PyIndex(z3_vars, 2)>>,
            <<100, PyIndex(z3_vars, 2)>>>>,
          <<<<100, PyIndex(z3_vars, 0)>>, <<1000, "carry_3">>>>),
    LinEq(<<<<1, "carry_3">>>>, <<<<1, "F">>>>)>>

(***************************************************************************)
(* II. Map colouring.                                                      *)
(***************************************************************************)
\* A palette without the key '2'.
colorsTwo == ("0" :> "Blue") @@ ("1" :> "Red")

\* colors = {'0': "Blue", '1': "Red", '2': "Green"}
colors == ("0" :> "Blue") @@ ("1" :> "Red") @@ ("2" :> "Green")

regions == <<"WA", "SA", "NT", "Q", "NSW", "V", "T">>

\* RegionBounds with the upper bound one too large.
RECURSIVE RegionBoundsOffByOne(_, _)
RegionBoundsOffByOne(rs, hi) ==
  IF rs = <<>> THEN <<>>
  ELSE <<Lb(0, Head(rs)), Ub(Head(rs), hi + 1)>>
       \o RegionBoundsOffByOne(Tail(rs), hi)

\* mc_solver.add(0 <= X, X <= hi) for the seven regions; hi is 2 in the cell.
RECURSIVE RegionBounds(_, _)
RegionBounds(rs, hi) ==
  IF rs = <<>> THEN <<>>
  ELSE <<Lb(0, Head(rs)), Ub(Head(rs), hi)>> \o RegionBounds(Tail(rs), hi)

Cell15Adds == RegionBounds(regions, 2)

\* Cell17Adds as if the region T inherited the cryptarithmetic's T != 0.
Cell17AddsSharedT ==
  <<Neq("WA", "SA"), Neq("WA", "NT"),
    Neq("NT", "SA"), Neq("Q", "NT"),
    Neq("NSW", "SA"), Neq("SA", "Q"),
    Neq("NSW", "SA"), Neq("NSW", "V"),
    NeqConst("T", 0)>>

\* mc_solver.add(...) of cell 17
Cell17Adds ==
  <<Neq("WA", "SA"), Neq("WA", "NT"),
    Neq("NT", "SA"), Neq("Q", "NT"),
    Neq("NSW", "SA"), Neq("SA", "Q"),
    Neq("NSW", "SA"), Neq("NSW", "V")>>

(***************************************************************************)
(* III. N-Queens.                                                          *)
(***************************************************************************)
\* Abs without the negation of negative arguments.
AbsIdentity(x) == x

\* def Abs(x): return If(x >= 0, x, -x)
Abs(x) == IF x >= 0 THEN x ELSE 0 - x

\* Q = [ Int('Q_%i' % (i + 1)) for i in range(N) ]
QVars(N) == [i \in 1..N |-> "Q_" \o ToString((i - 1) + 1)]

\* val_c with the rows numbered up to N - 1.
val_c_Short(N) ==
  [i \in 1..N |-> AndRange(1, PyIndex(QVars(N), i - 1), N - 1)]

\* val_c = [ And(1 <= Q[i], Q[i] <= N) for i in range(N) ]
val_c(N) == [i \in 1..N |-> AndRange(1, PyIndex(QVars(N), i - 1), N)]

col_c(N) == <<Distinct(QVars(N))>>

\* diag_c over the neighbouring columns only.
diag_c_Neighbours(N) ==
  Flatten([i \in 1..N |->
             [j \in (IF i = 1 THEN {} ELSE {1}) |->
                IfDiag(i - 1, i - 2, PyIndex(QVars(N), i - 1),
                       PyIndex(QVars(N), i - 2))]])

\* for i in range(N) for j in range(i)
diag_c(N) ==
  Flatten([i \in 1..N |->
             [j \in 1..(i - 1) |->
                IfDiag(i - 1, j - 1, PyIndex(QVars(N), i - 1),
                       PyIndex(QVars(N), j - 1))]])

\* nqueens adding col_c ahead of val_c.
nqueensDistinctFirst(N) == col_c(N) \o val_c(N) \o diag_c(N)

\* The assertions of the solver nqueens(N) returns.
nqueens(N) == val_c(N) \o col_c(N) \o diag_c(N)

(***************************************************************************)
(* IV. Sudoku.                                                             *)
(***************************************************************************)
rows == <<"A", "B", "C", "D", "E", "F", "G", "H", "I">>
cols == <<"1", "2", "3", "4", "5", "6", "7", "8", "9">>

\* boxes[i][j], with Python's indices 0..8
boxes(i, j) == rows[i + 1] \o cols[j + 1]

\* The board with the given of box B1 left blank.
boardWithoutB1 ==
  << <<0, 0, 3, 0, 2, 0, 6, 0, 0>>,
     <<0, 0, 0, 3, 0, 5, 0, 0, 1>>,
     <<0, 0, 1, 8, 0, 6, 4, 0, 0>>,
     <<0, 0, 8, 1, 0, 2, 9, 0, 0>>,
     <<7, 0, 0, 0, 0, 0, 0, 0, 8>>,
     <<0, 0, 6, 7, 0, 8, 2, 0, 0>>,
     <<0, 0, 2, 6, 0, 9, 5, 0, 0>>,
     <<8, 0, 0, 2, 0, 3, 0, 0, 9>>,
     <<0, 0, 5, 0, 1, 0, 3, 0, 0>> >>

board ==
  << <<0, 0, 3, 0, 2, 0, 6, 0, 0>>,
     <<9, 0, 0, 3, 0, 5, 0, 0, 1>>,
     <<0, 0, 1, 8, 0, 6, 4, 0, 0>>,
     <<0, 0, 8, 1, 0, 2, 9, 0, 0>>,
     <<7, 0, 0, 0, 0, 0, 0, 0, 8>>,
     <<0, 0, 6, 7, 0, 8, 2, 0, 0>>,
     <<0, 0, 2, 6, 0, 9, 5, 0, 0>>,
     <<8, 0, 0, 2, 0, 3, 0, 0, 9>>,
     <<0, 0, 5, 0, 1, 0, 3, 0, 0>> >>

BoxRange ==
  Flatten([i \in 1..9 |-> [j \in 1..9 |-> AndRange(1, boxes(i - 1, j - 1), 9)]])

RowDistinct == [i \in 1..9 |-> Distinct([j \in 1..9 |-> boxes(i - 1, j - 1)])]

ColDistinct == [j \in 1..9 |-> Distinct([i \in 1..9 |-> boxes(i - 1, j - 1)])]

\* BlockCells with the block's row and column exchanged.
BlockCellsExchanged(i0, j0) ==
  Flatten([i \in 1..3 |->
             [j \in 1..3 |-> boxes(3 * j0 + (i - 1), 3 * i0 + (j - 1))]])

\* for i0 in range(3) for j0 in range(3): the cells 3*i0 + i, 3*j0 + j
BlockCells(i0, j0) ==
  Flatten([i \in 1..3 |->
             [j \in 1..3 |-> boxes(3 * i0 + (i - 1), 3 * j0 + (j - 1))]])

BlockDistinct ==
  Flatten([i0 \in 1..3 |-> [j0 \in 1..3 |-> Distinct(BlockCells(i0 - 1, j0 - 1))]])

Cell27Adds == BoxRange \o RowDistinct \o ColDistinct \o BlockDistinct

\* Cell30Adds with the indices of boxes exchanged.
Cell30AddsTransposed ==
  Flatten([i \in 1..9 |->
             [j \in 1..9 |-> IfGiven(board[i][j], boxes(j - 1, i - 1))]])

Cell30Adds ==
  Flatten([i \in 1..9 |->
             [j \in 1..9 |-> IfGiven(board[i][j], boxes(i - 1, j - 1))]])


(***************************************************************************)
(* The Solver object: its assertions, the result of its last check(), the  *)
(* model that check() found, and the numbers of model() and check() calls  *)
(* made on it.                                                             *)
(***************************************************************************)
NoSolver ==
  [created |-> FALSE, assertions |-> <<>>, result |-> "none",
   model |-> EmptyModel, reads |-> 0, checks |-> 0]

\* Solver()
NewSolver == [NoSolver EXCEPT !.created = TRUE]

\* solver.add(...): the expressions are conjoined to the assertions.
Add(s, cs) == [s EXCEPT !.assertions = @ \o cs]

\* The instances on which the notebook calls check(), and their models,
\* computed once: ModelsOf(A) is Models(A).
CAInstance == Cell5Adds \o Cell7Adds \o Cell9Adds
MCInstance == Cell15Adds \o Cell17Adds
SudokuInstance == Cell27Adds \o Cell30Adds

CheckedInstances ==
  <<CAInstance, MCInstance, SudokuInstance>> \o [N \in 1..MaxN |-> nqueens(N)]

ModelTable == [i \in DOMAIN CheckedInstances |-> Models(CheckedInstances[i])]

ModelsOf(A) ==
  LET hit == {i \in DOMAIN CheckedInstances : CheckedInstances[i] = A}
  IN  IF hit = {} THEN Models(A) ELSE ModelTable[CHOOSE i \in hit : TRUE]

\* solver.check(): sat with one of the models, unsat when there is none, or
\* unknown (the solver gave up).
CheckResults(s) ==
  LET ms == ModelsOf(s.assertions)
  IN  {[result |-> "unknown", model |-> EmptyModel]}
      \cup (IF ms = {}
            THEN {[result |-> "unsat", model |-> EmptyModel]}
            ELSE {[result |-> "sat", model |-> m] : m \in ms})

Checked(s, o) ==
  [s EXCEPT !.result = o.result, !.model = o.model, !.checks = @ + 1]

\* n calls of solver.model()
Read(s, n) == [s EXCEPT !.reads = @ + n]

\* The assertion on the result object itself, as in the benchmark cell.
AlwaysPasses(r) == TRUE

\* The assertion written as "check() != unknown".
NotUnknown(r) == r # "unknown"

\* assert solver.check() == sat
EqualsSat(r) == r = "sat"

\* assert nq_solver.check(): the truth value of the CheckSatResult object,
\* which defines neither __bool__ nor __len__.
Truthy(r) == TRUE

NoError == [cell |-> 0, etype |-> "none", msg |-> ""]

AssertionError(cell, msg) == [cell |-> cell, etype |-> "AssertionError", msg |-> msg]

\* model() on a solver whose last check() was not sat
Z3Exception(cell) ==
  [cell |-> cell, etype |-> "Z3Exception", msg |-> "model is not available"]

KeyError(cell, key) == [cell |-> cell, etype |-> "KeyError", msg |-> key]

\* '{}'.format(n), n.as_string(): the decimal numeral of n
Str(n) == ToString(n)

OutputCells == {10, 18, 22, 31}

NoOutput == [c \in OutputCells |-> <<>>]

(***************************************************************************)
(* The kernel before the first code cell runs.                             *)
(***************************************************************************)
Init ==
  /\ pc = "cell5"
  /\ ca_solver = NoSolver
  /\ mc_solver = NoSolver
  /\ sizes = <<>>
  /\ loop_i = 0
  /\ nq_solver = NoSolver
  /\ solutions = <<>>
  /\ s_solver = NoSolver
  /\ stdout = NoOutput
  /\ error = NoError
  /\ eval_in = <<>>
  /\ eval_out = <<>>

(***************************************************************************)
(* I. Cryptarithmetic                                                      *)
(***************************************************************************)
Cell5 ==
  /\ pc = "cell5"
  /\ UNCHANGED harness
  /\ ca_solver' = Add(NewSolver, Cell5Adds)
  /\ pc' = "cell7"
  /\ UNCHANGED <<mc_solver, sizes, loop_i, nq_solver, solutions, s_solver,
                 stdout, error>>

Cell7 ==
  /\ pc = "cell7"
  /\ UNCHANGED harness
  /\ ca_solver' = Add(ca_solver, Cell7Adds)
  /\ pc' = "cell9"
  /\ UNCHANGED <<mc_solver, sizes, loop_i, nq_solver, solutions, s_solver,
                 stdout, error>>

Cell9 ==
  /\ pc = "cell9"
  /\ UNCHANGED harness
  /\ ca_solver' = Add(ca_solver, Cell9Adds)
  /\ pc' = "cell10"
  /\ UNCHANGED <<mc_solver, sizes, loop_i, nq_solver, solutions, s_solver,
                 stdout, error>>

Msg10 == "Uh oh...the solver did not find a solution. Check your constraints."

\* The four lines the cell prints from the model m.
CryptoLines(m) ==
  <<"  T W O  :    " \o Str(m[PyIndex(z3_vars, 2)]) \o " "
      \o Str(m[PyIndex(z3_vars, -1)]) \o " " \o Str(m[PyIndex(z3_vars, 0)]),
    "+ T W O  :  + " \o Str(m[PyIndex(z3_vars, 2)]) \o " "
      \o Str(m[PyIndex(z3_vars, -1)]) \o " " \o Str(m[PyIndex(z3_vars, 0)]),
    "-------  :  -------",
    "F O U R  :  " \o Str(m["F"]) \o " " \o Str(m[PyIndex(z3_vars, 0)]) \o " "
      \o Str(m[PyIndex(z3_vars, -2)]) \o " " \o Str(m[PyIndex(z3_vars, 1)])>>

Cell10 ==
  /\ pc = "cell10"
  /\ UNCHANGED harness
  /\ \E o \in CheckResults(ca_solver) :
       LET s == Checked(ca_solver, o)
       IN  IF ~EqualsSat(o.result)
           THEN /\ ca_solver' = s
                /\ error' = AssertionError(10, Msg10)
                /\ pc' = "halted"
                /\ stdout' = stdout
           ELSE IF s.result # "sat"
           THEN /\ ca_solver' = Read(s, 1)
                /\ error' = Z3Exception(10)
                /\ pc' = "halted"
                /\ stdout' = stdout
           ELSE /\ ca_solver' = Read(s, 10)
                /\ stdout' = [stdout EXCEPT ![10] = CryptoLines(s.model)]
                /\ pc' = "cell13"
                /\ error' = error
  /\ UNCHANGED <<mc_solver, sizes, loop_i, nq_solver, solutions, s_solver>>

(***************************************************************************)
(* II. Map colouring                                                       *)
(***************************************************************************)
Cell13 ==
  /\ pc = "cell13"
  /\ UNCHANGED harness
  /\ mc_solver' = NewSolver
  /\ pc' = "cell15"
  /\ UNCHANGED <<ca_solver, sizes, loop_i, nq_solver, solutions, s_solver,
                 stdout, error>>

Cell15 ==
  /\ pc = "cell15"
  /\ UNCHANGED harness
  /\ mc_solver' = Add(mc_solver, Cell15Adds)
  /\ pc' = "cell17"
  /\ UNCHANGED <<ca_solver, sizes, loop_i, nq_solver, solutions, s_solver,
                 stdout, error>>

Cell17 ==
  /\ pc = "cell17"
  /\ UNCHANGED harness
  /\ mc_solver' = Add(mc_solver, Cell17Adds)
  /\ pc' = "cell18"
  /\ UNCHANGED <<ca_solver, sizes, loop_i, nq_solver, solutions, s_solver,
                 stdout, error>>

Msg18 == "Uh oh. The solver failed to find a solution. Check your constraints."

\* The regions in the order the cell prints them.
printed == <<"WA", "NT", "SA", "Q", "NSW", "V", "T">>

\* The first print whose key is not in the palette (a KeyError), or one past
\* the last print.
FirstBadKey(m) ==
  LET bad == {i \in DOMAIN printed : Str(m[printed[i]]) \notin DOMAIN colors}
  IN  IF bad = {} THEN Len(printed) + 1
      ELSE CHOOSE i \in bad : \A j \in bad : i <= j

MapLines(m) ==
  [i \in 1..(FirstBadKey(m) - 1) |->
     printed[i] \o "=" \o colors[Str(m[printed[i]])]]

Cell18 ==
  /\ pc = "cell18"
  /\ UNCHANGED harness
  /\ \E o \in CheckResults(mc_solver) :
       LET s == Checked(mc_solver, o)
           n == FirstBadKey(s.model)
       IN  IF ~EqualsSat(o.result)
           THEN /\ mc_solver' = s
                /\ error' = AssertionError(18, Msg18)
                /\ pc' = "halted"
                /\ stdout' = stdout
           ELSE IF s.result # "sat"
           THEN /\ mc_solver' = Read(s, 1)
                /\ error' = Z3Exception(18)
                /\ pc' = "halted"
                /\ stdout' = stdout
           ELSE IF n <= Len(printed)
           THEN /\ mc_solver' = Read(s, n)
                /\ stdout' = [stdout EXCEPT ![18] = MapLines(s.model)]
                /\ error' = KeyError(18, Str(s.model[printed[n]]))
                /\ pc' = "halted"
           ELSE /\ mc_solver' = Read(s, Len(printed))
                /\ stdout' = [stdout EXCEPT ![18] = MapLines(s.model)]
                /\ pc' = "cell22"
                /\ error' = error
  /\ UNCHANGED <<ca_solver, sizes, loop_i, nq_solver, solutions, s_solver>>

(***************************************************************************)
(* III. N-Queens: the benchmark loop.  The cell's list of sizes is         *)
(* [8, 16, 32, 64]; the model draws the list from SizesInputs.  The        *)
(* measured times are not modelled.                                        *)
(***************************************************************************)
SizesInputs == UNION {[1..n -> 1..MaxN] : n \in 1..MaxSizes}

Cell22Start ==
  /\ pc = "cell22"
  /\ UNCHANGED harness
  /\ \E input \in SizesInputs : sizes' = input
  /\ solutions' = <<>>
  /\ loop_i' = 1
  /\ pc' = "cell22_for"
  /\ UNCHANGED <<ca_solver, mc_solver, nq_solver, s_solver, stdout, error>>

Msg22 == "Uh oh...The solver failed to find a solution. Check your constraints."

\* One iteration of "for N in sizes".
Cell22Iteration ==
  /\ pc = "cell22_for"
  /\ UNCHANGED harness
  /\ loop_i <= Len(sizes)
  /\ LET N == sizes[loop_i]
     IN  \E o \in CheckResults(Add(NewSolver, nqueens(N))) :
           LET s == Checked(Add(NewSolver, nqueens(N)), o)
           IN  /\ nq_solver' = s
               /\ IF ~Truthy(o.result)
                  THEN /\ error' = AssertionError(22, Msg22)
                       /\ pc' = "halted"
                       /\ UNCHANGED <<stdout, solutions, loop_i>>
                  ELSE /\ stdout' = [stdout EXCEPT
                                       ![22] = Append(@, Str(N) \o "-queens")]
                       /\ solutions' = Append(solutions, s)
                       /\ loop_i' = loop_i + 1
                       /\ pc' = IF loop_i = Len(sizes) THEN "cell25"
                                ELSE "cell22_for"
                       /\ error' = error
  /\ UNCHANGED <<ca_solver, mc_solver, sizes, s_solver>>

\* The benchmark cell left out: no later cell reads what it defines.
SkipCell22 ==
  /\ pc = "cell22"
  /\ UNCHANGED harness
  /\ pc' = "cell25"
  /\ UNCHANGED <<ca_solver, mc_solver, sizes, loop_i, nq_solver, solutions,
                 s_solver, stdout, error>>

(***************************************************************************)
(* IV. Sudoku.  The template cell between the constraints and the board    *)
(* (execution count null, its lines are unfinished) is not run.            *)
(***************************************************************************)
Cell25 ==
  /\ pc = "cell25"
  /\ UNCHANGED harness
  /\ s_solver' = NewSolver
  /\ pc' = "cell27"
  /\ UNCHANGED <<ca_solver, mc_solver, sizes, loop_i, nq_solver, solutions,
                 stdout, error>>

Cell27 ==
  /\ pc = "cell27"
  /\ UNCHANGED harness
  /\ s_solver' = Add(s_solver, Cell27Adds)
  /\ pc' = "cell30"
  /\ UNCHANGED <<ca_solver, mc_solver, sizes, loop_i, nq_solver, solutions,
                 stdout, error>>

\* Cell 30 run incrementally: the general constraints are checked before
\* the givens are added.
Cell30Incremental ==
  /\ pc = "cell30"
  /\ UNCHANGED harness
  /\ s_solver' = Add(Checked(s_solver, [result |-> "unknown",
                                         model |-> EmptyModel]),
                     Cell30Adds)
  /\ pc' = "cell31"
  /\ UNCHANGED <<ca_solver, mc_solver, sizes, loop_i, nq_solver, solutions,
                 stdout, error>>

Cell30 ==
  /\ pc = "cell30"
  /\ UNCHANGED harness
  /\ s_solver' = Add(s_solver, Cell30Adds)
  /\ pc' = "cell31"
  /\ UNCHANGED <<ca_solver, mc_solver, sizes, loop_i, nq_solver, solutions,
                 stdout, error>>

Msg31 == "Uh oh. The solver didn't find a solution. Check your constraints."

Separator == "---------|---------|---------"

\* The text of the boxes row (0..8), columns col..8.
RECURSIVE RowText(_, _, _)
RowText(m, row, col) ==
  IF col > 8 THEN ""
  ELSE (IF col # 0 /\ col % 3 = 0 THEN "|" ELSE "")
       \o " " \o Str(m[boxes(row, col)]) \o " " \o RowText(m, row, col + 1)

SudokuLines(m) ==
  Flatten([r \in 1..9 |->
             (IF (r - 1) # 0 /\ (r - 1) % 3 = 0 THEN <<Separator>> ELSE <<>>)
             \o <<RowText(m, r - 1, 0)>>])

Cell31 ==
  /\ pc = "cell31"
  /\ UNCHANGED harness
  /\ \E o \in CheckResults(s_solver) :
       LET s == Checked(s_solver, o)
       IN  IF ~EqualsSat(o.result)
           THEN /\ s_solver' = s
                /\ error' = AssertionError(31, Msg31)
                /\ pc' = "halted"
                /\ stdout' = stdout
           ELSE IF s.result # "sat"
           THEN /\ s_solver' = Read(s, 1)
                /\ error' = Z3Exception(31)
                /\ pc' = "halted"
                /\ stdout' = stdout
           ELSE /\ s_solver' = Read(s, 81)
                /\ stdout' = [stdout EXCEPT ![31] = SudokuLines(s.model)]
                /\ pc' = "done"
                /\ error' = error
  /\ UNCHANGED <<ca_solver, mc_solver, sizes, loop_i, nq_solver, solutions>>

(***************************************************************************)
(* The notebook, its code cells run from top to bottom.                    *)
(***************************************************************************)
Next ==
  \/ Cell5 \/ Cell7 \/ Cell9 \/ Cell10
  \/ Cell13 \/ Cell15 \/ Cell17 \/ Cell18
  \/ Cell22Start \/ Cell22Iteration
  \/ Cell25 \/ Cell27 \/ Cell30 \/ Cell31

Spec == Init /\ [][Next]_vars

(***************************************************************************)
(* Sections I, II and IV, the benchmark left out.                          *)
(***************************************************************************)
NextPuzzles ==
  \/ Cell5 \/ Cell7 \/ Cell9 \/ Cell10
  \/ Cell13 \/ Cell15 \/ Cell17 \/ Cell18
  \/ SkipCell22
  \/ Cell25 \/ Cell27 \/ Cell30 \/ Cell31

SpecPuzzles == Init /\ [][NextPuzzles]_vars

(***************************************************************************)
(* Sections III and IV, from the kernel state the notebook records after   *)
(* sections I and II: the outputs stored with cells 10 and 18.             *)
(***************************************************************************)
RecordedStdout10 ==
  <<"  T W O  :    6 9 3",
    "+ T W O  :  + 6 9 3",
    "-------  :  -------",
    "F O U R  :  1 3 8 6">>

RecordedStdout18 ==
  <<"WA=Blue", "NT=Red", "SA=Green", "Q=Blue", "NSW=Red", "V=Blue", "T=Blue">>

RecordedCAModel ==
  [v \in {"F", "O", "R", "T", "U", "W", "carry_1", "carry_2", "carry_3"} |->
     CASE v = "F" -> 1 [] v = "O" -> 3 [] v = "R" -> 6 [] v = "T" -> 6
       [] v = "U" -> 8 [] v = "W" -> 9
       [] v = "carry_1" -> 0 [] v = "carry_2" -> 1 [] v = "carry_3" -> 1]

RecordedMCModel ==
  [v \in {"WA", "NT", "SA", "Q", "NSW", "V", "T"} |->
     CASE v = "WA" -> 0 [] v = "NT" -> 1 [] v = "SA" -> 2 [] v = "Q" -> 0
       [] v = "NSW" -> 1 [] v = "V" -> 0 [] v = "T" -> 0]

InitRecorded ==
  /\ pc = "cell22"
  /\ ca_solver = Read(Checked(Add(NewSolver, CAInstance),
                              [result |-> "sat", model |-> RecordedCAModel]), 10)
  /\ mc_solver = Read(Checked(Add(NewSolver, MCInstance),
                              [result |-> "sat", model |-> RecordedMCModel]), 7)
  /\ sizes = <<>>
  /\ loop_i = 0
  /\ nq_solver = NoSolver
  /\ solutions = <<>>
  /\ s_solver = NoSolver
  /\ stdout = [NoOutput EXCEPT ![10] = RecordedStdout10, ![18] = RecordedStdout18]
  /\ error = NoError
  /\ eval_in = <<>>
  /\ eval_out = <<>>

NextQueensSudoku ==
  \/ Cell22Start \/ Cell22Iteration
  \/ Cell25 \/ Cell27 \/ Cell30 \/ Cell31

SpecQueensSudoku == InitRecorded /\ [][NextQueensSudoku]_vars

(***************************************************************************)
(* Sections I and II with one colour fewer than the map needs: cell 15     *)
(* with "<= 1" for "<= 2" on every region.                                 *)
(***************************************************************************)
Cell15TwoColours ==
  /\ pc = "cell15"
  /\ UNCHANGED harness
  /\ mc_solver' = Add(mc_solver, RegionBounds(regions, 1))
  /\ pc' = "cell17"
  /\ UNCHANGED <<ca_solver, sizes, loop_i, nq_solver, solutions, s_solver,
                 stdout, error>>

NextTwoColours ==
  \/ Cell5 \/ Cell7 \/ Cell9 \/ Cell10
  \/ Cell13 \/ Cell15TwoColours \/ Cell17 \/ Cell18

SpecTwoColours == Init /\ [][NextTwoColours]_vars

(***************************************************************************)
(* Properties.                                                             *)
(***************************************************************************)
Letters == <<"F", "O", "R", "T", "U", "W">>

\* TWO + TWO = FOUR, read as decimal numerals
TwoTwoFour(m) ==
  2 * (100 * m["T"] + 10 * m["W"] + m["O"])
    = 1000 * m["F"] + 100 * m["O"] + 10 * m["U"] + m["R"]

\* C1: every model check() can return for the cryptarithmetic instance
\* satisfies TWO + TWO = FOUR exactly, with T and F non-zero.
C1_CryptoEquation ==
  ca_solver.result = "sat" =>
    /\ TwoTwoFour(ca_solver.model)
    /\ ca_solver.model["T"] # 0
    /\ ca_solver.model["F"] # 0

\* The run the notebook records: 693 + 693 = 1386 printed by cell 10.
C1_Witness ==
  /\ ca_solver.result = "sat"
  /\ stdout[10] = RecordedStdout10

\* C2: in every model of the cryptarithmetic instance the six letters take
\* pairwise different digits.
C2_LettersDistinct ==
  ca_solver.result = "sat" =>
    \A i, j \in DOMAIN Letters :
      i < j => ca_solver.model[Letters[i]] # ca_solver.model[Letters[j]]

\* The borders of the map of Australia.
Borders ==
  {<<"WA", "NT">>, <<"WA", "SA">>, <<"NT", "SA">>, <<"NT", "Q">>,
   <<"SA", "Q">>, <<"SA", "NSW">>, <<"SA", "V">>, <<"Q", "NSW">>,
   <<"NSW", "V">>}

\* C3: in every model of the map-colouring instance the two regions of
\* every border differ in colour, and every region's colour is in 0..2.
C3_MapColouring ==
  mc_solver.result = "sat" =>
    /\ \A b \in Borders : mc_solver.model[b[1]] # mc_solver.model[b[2]]
    /\ \A i \in DOMAIN regions : mc_solver.model[regions[i]] \in 0..2

AbsDiff(a, b) == IF a >= b THEN a - b ELSE b - a

\* m puts one queen in each of the N columns, in a row of 1..N, no two in
\* one row or on one diagonal.
ValidPlacement(m, N) ==
  /\ DOMAIN m = {"Q_" \o ToString(i) : i \in 1..N}
  /\ \A i \in 1..N : m["Q_" \o ToString(i)] \in 1..N
  /\ \A i, j \in 1..N :
       i # j => /\ m["Q_" \o ToString(i)] # m["Q_" \o ToString(j)]
                /\ AbsDiff(m["Q_" \o ToString(i)], m["Q_" \o ToString(j)])
                     # AbsDiff(i, j)

\* C4: for every board size N of the benchmark, every model of nqueens(N) is
\* a valid placement of N queens.
C4_QueensSound ==
  \A n \in DOMAIN solutions :
    solutions[n].result = "sat" => ValidPlacement(solutions[n].model, sizes[n])

C4_Witness ==
  \E n \in DOMAIN solutions :
    /\ solutions[n].result = "sat"
    /\ sizes[n] >= 4
    /\ n >= 2

\* Each of 1..9 appears exactly once among the cells cs of the grid m.
EachDigitOnce(m, cs) ==
  \A d \in 1..9 : Cardinality({c \in cs : m[boxes(c[1], c[2])] = d}) = 1

\* C5: every model of the Sudoku instance keeps every given of the board
\* and has each of 1..9 exactly once in every row, column and 3x3 block.
C5_SudokuSound ==
  s_solver.result = "sat" =>
    LET m == s_solver.model
    IN  /\ \A i, j \in 0..8 :
             board[i + 1][j + 1] # 0 => m[boxes(i, j)] = board[i + 1][j + 1]
        /\ \A i \in 0..8 : EachDigitOnce(m, {<<i, j>> : j \in 0..8})
        /\ \A j \in 0..8 : EachDigitOnce(m, {<<i, j>> : i \in 0..8})
        /\ \A bi, bj \in 0..2 :
             EachDigitOnce(m, {c \in (0..8) \X (0..8) :
                                 c[1] \div 3 = bi /\ c[2] \div 3 = bj})

\* The grid the notebook records under cell 31.
RecordedStdout31 ==
  <<" 4  8  3 | 9  2  1 | 6  5  7 ",
    " 9  6  7 | 3  4  5 | 8  2  1 ",
    " 2  5  1 | 8  7  6 | 4  9  3 ",
    "---------|---------|---------",
    " 5  4  8 | 1  3  2 | 9  7  6 ",
    " 7  2  9 | 5  6  4 | 1  3  8 ",
    " 1  3  6 | 7  9  8 | 2  4  5 ",
    "---------|---------|---------",
    " 3  7  2 | 6  8  9 | 5  1  4 ",
    " 8  1  4 | 2  5  3 | 7  6  9 ",
    " 6  9  5 | 4  1  7 | 3  8  2 ">>

C5_Witness ==
  /\ s_solver.result = "sat"
  /\ stdout[31] = RecordedStdout31

\* The flow of one solver: model() is called and the cell prints only after
\* check() answered sat; on unsat or unknown the cell stops at its assertion.
GuardedFlow(s, cell, msg) ==
  /\ (s.reads > 0 \/ stdout[cell] # <<>>) => s.result = "sat"
  /\ s.result \in {"unsat", "unknown"} =>
       /\ s.reads = 0
       /\ stdout[cell] = <<>>
       /\ pc = "halted"
       /\ error = AssertionError(cell, msg)

\* C6: in the cryptarithmetic, map-colouring and Sudoku flows model() is read
\* only after check() returned sat; otherwise the flow stops at the assertion
\* with no model() call and no output.
C6_ModelOnlyAfterSat ==
  /\ GuardedFlow(ca_solver, 10, Msg10)
  /\ GuardedFlow(mc_solver, 18, Msg18)
  /\ GuardedFlow(s_solver, 31, Msg31)

C6_Witness ==
  /\ ca_solver.reads = 10
  /\ mc_solver.reads = 7
  /\ s_solver.result = "unknown"
  /\ pc = "halted"
  /\ stdout[31] = <<>>

\* C7: a solver is appended to solutions only after a sat verdict.
C7_OnlySatRecorded ==
  \A n \in DOMAIN solutions : solutions[n].result = "sat"

\* C8: with two colours the map-colouring instance has no model; check()
\* never answers sat (it answers unsat whenever it decides), the flow stops
\* at the assertion and no region's colour is printed.
C8_TwoColoursUnsat ==
  /\ mc_solver.result # "sat"
  /\ pc \in {"cell18", "halted"} /\ error.cell # 10 =>
       ModelsOf(mc_solver.assertions) = {}
  /\ mc_solver.result # "none" =>
       /\ pc = "halted"
       /\ error = AssertionError(18, Msg18)
       /\ stdout[18] = <<>>
       /\ mc_solver.reads = 0

C8_Witness ==
  /\ mc_solver.result = "unsat"
  /\ pc = "halted"
  /\ stdout[18] = <<>>

SingleEquation ==
  LinEq(<<<<100, "T">>, <<10, "W">>, <<1, "O">>,
          <<100, "T">>, <<10, "W">>, <<1, "O">>>>,
        <<<<1000, "F">>, <<100, "O">>, <<10, "U">>, <<1, "R">>>>)

\* Some carries (within the window) satisfy the chain together with the
\* digits d.
ChainSatisfiable(d) ==
  \E c1 \in Window :
    /\ Holds(Cell9Adds[1], d @@ ("carry_1" :> c1))
    /\ \E c2 \in Window :
         /\ Holds(Cell9Adds[2], d @@ ("carry_1" :> c1) @@ ("carry_2" :> c2))
         /\ \E c3 \in Window :
              /\ Holds(Cell9Adds[3], d @@ ("carry_2" :> c2) @@ ("carry_3" :> c3))
              /\ Holds(Cell9Adds[4], d @@ ("carry_3" :> c3))

NotEvaluated == [done |-> FALSE, chain |-> FALSE, single |-> FALSE]

InitEncodings ==
  /\ pc = "eval"
  /\ ca_solver = NoSolver
  /\ mc_solver = NoSolver
  /\ sizes = <<>>
  /\ loop_i = 0
  /\ nq_solver = NoSolver
  /\ solutions = <<>>
  /\ s_solver = NoSolver
  /\ stdout = NoOutput
  /\ error = NoError
  /\ eval_in \in [SeqSet(Letters) -> 0..9]
  /\ eval_out = NotEvaluated

EvalEncodings ==
  /\ pc = "eval"
  /\ ~eval_out.done
  /\ eval_out' = [done |-> TRUE,
                  chain |-> ChainSatisfiable(eval_in),
                  single |-> Holds(SingleEquation, eval_in)]
  /\ UNCHANGED <<pc, ca_solver, mc_solver, sizes, loop_i, nq_solver,
                 solutions, s_solver, stdout, error, eval_in>>

NextEncodings == EvalEncodings

SpecEncodings == InitEncodings /\ [][NextEncodings]_vars

\* C10: for all digits F, O, R, T, U, W in 0..9 some carries satisfy the four
\* chain constraints exactly when 2 * TWO = FOUR holds.
C10_ChainEquivalent ==
  eval_out.done => (eval_out.chain <=> eval_out.single)

\* 693 + 693 = 1386: both encodings hold.
C10_Witness ==
  /\ eval_out.done
  /\ eval_out.chain
  /\ eval_out.single
  /\ eval_in = [v \in SeqSet(Letters) |-> RecordedCAModel[v]]

(***************************************************************************)
(* The diagonal constraint of nqueens and its reading with Abs, evaluated  *)
(* on two row values a, b and two column indices i, j.                     *)
(***************************************************************************)
DiagInputs ==
  [a : Window, b : Window, i : 0..(MaxN - 1), j : 0..(MaxN - 1)]

InitDiagonal ==
  /\ pc = "eval"
  /\ ca_solver = NoSolver
  /\ mc_solver = NoSolver
  /\ sizes = <<>>
  /\ loop_i = 0
  /\ nq_solver = NoSolver
  /\ solutions = <<>>
  /\ s_solver = NoSolver
  /\ stdout = NoOutput
  /\ error = NoError
  /\ eval_in \in DiagInputs
  /\ eval_out = [done |-> FALSE, diag |-> FALSE, abs |-> FALSE]

EvalDiagonal ==
  /\ pc = "eval"
  /\ ~eval_out.done
  /\ eval_out' =
       [done |-> TRUE,
        diag |-> Holds(IfDiag(eval_in.i, eval_in.j, "a", "b"),
                       [v \in {"a", "b"} |->
                          IF v = "a" THEN eval_in.a ELSE eval_in.b]),
        abs |-> Abs(eval_in.a - eval_in.b) # eval_in.j - eval_in.i]
  /\ UNCHANGED <<pc, ca_solver, mc_solver, sizes, loop_i, nq_solver,
                 solutions, s_solver, stdout, error, eval_in>>

NextDiagonal == EvalDiagonal

SpecDiagonal == InitDiagonal /\ [][NextDiagonal]_vars

\* C12: for all integers a, b and column indices i < j, the diagonal
\* constraint (a - b != i - j) AND (a - b != j - i) holds exactly when
\* Abs(a - b) != j - i.
C12_DiagonalIsAbs ==
  eval_out.done /\ eval_in.i < eval_in.j => (eval_out.diag <=> eval_out.abs)

\* Two queens on a falling diagonal: a - b = i - j < 0, both sides false.
C12_Witness ==
  /\ eval_out.done
  /\ eval_in.i < eval_in.j
  /\ eval_in.a - eval_in.b = eval_in.i - eval_in.j
  /\ ~eval_out.diag
  /\ ~eval_out.abs

(***************************************************************************)
(* Declaration before use.                                                 *)
(***************************************************************************)
\* c is a range bound of v: lo <= v, v <= hi, or And(lo <= v, v <= hi).
IsBound(c, v) == c.k \in {"lb", "ub", "range"} /\ c.v = v

\* Among the first n assertions of A there is a lower and an upper bound
\* of v.
Bounded(A, n, v) ==
  \/ \E k \in 1..n : A[k].k = "range" /\ A[k].v = v
  \/ /\ \E k \in 1..n : A[k].k = "lb" /\ A[k].v = v
     /\ \E k \in 1..n : A[k].k = "ub" /\ A[k].v = v

\* Every assertion of A that is not itself a bound mentions, apart from the
\* variables in X, only variables bounded by earlier assertions.
DeclaredBeforeUse(A, X) ==
  \A n \in DOMAIN A :
    \A v \in VarsOf(A[n]) \ X : IsBound(A[n], v) \/ Bounded(A, n - 1, v)

Carries == {"carry_1", "carry_2", "carry_3"}

FixingIf(b) ==
  Flatten([i \in 1..9 |-> [j \in 1..9 |-> IfGiven(b[i][j], boxes(i - 1, j - 1))]])

\* boxes[i][j] == b[i][j] for blank boxes as well.
FixingAllBoxes(b) ==
  Flatten([i \in 1..9 |->
             [j \in 1..9 |-> EqConst(boxes(i - 1, j - 1), b[i][j])]])

\* boxes[i][j] == b[i][j] for each box where b[i][j] != 0, nothing for the
\* blank boxes.
FixingGivensOnly(b) ==
  Flatten([i \in 1..9 |->
             Flatten([j \in 1..9 |->
                        IF b[i][j] = 0 THEN <<>>
                        ELSE <<EqConst(boxes(i - 1, j - 1), b[i][j])>>])])

\* m satisfies every assertion of A.
Satisfies(A, m) == \A n \in DOMAIN A : Holds(A[n], m)

SudokuSolution == CHOOSE m \in ModelsOf(SudokuInstance) : TRUE

BoardWith(i, j, g) ==
  [r \in 1..9 |-> [c \in 1..9 |-> IF r = i /\ c = j THEN g ELSE board[r][c]]]

GridWith(i, j, x) ==
  [v \in DOMAIN SudokuSolution |->
     IF v = boxes(i - 1, j - 1) THEN x ELSE SudokuSolution[v]]

FixingInputs == [i : 1..9, j : 1..9, given : 0..9, value : Window]

InitFixing ==
  /\ pc = "eval"
  /\ ca_solver = NoSolver
  /\ mc_solver = NoSolver
  /\ sizes = <<>>
  /\ loop_i = 0
  /\ nq_solver = NoSolver
  /\ solutions = <<>>
  /\ s_solver = NoSolver
  /\ stdout = NoOutput
  /\ error = NoError
  /\ eval_in \in FixingInputs
  /\ eval_out = [done |-> FALSE]

EvalFixing ==
  /\ pc = "eval"
  /\ ~eval_out.done
  /\ LET b == BoardWith(eval_in.i, eval_in.j, eval_in.given)
         m == GridWith(eval_in.i, eval_in.j, eval_in.value)
     IN  eval_out' =
           [done |-> TRUE,
            general |-> Satisfies(Cell27Adds, m),
            ifForm |-> Satisfies(FixingIf(b), m),
            givensOnly |-> Satisfies(FixingGivensOnly(b), m)]
  /\ UNCHANGED <<pc, ca_solver, mc_solver, sizes, loop_i, nq_solver,
                 solutions, s_solver, stdout, error, eval_in>>

NextFixing == EvalFixing

SpecFixing == InitFixing /\ [][NextFixing]_vars

\* C13: a grid satisfies the instance with If(board[i][j] == 0, True,
\* boxes[i][j] == board[i][j]) on all 81 boxes exactly when it satisfies the
\* instance with boxes[i][j] == board[i][j] on the non-zero givens only, for
\* the boards and grids one box away from the notebook's; cell 30 adds the
\* conditional form for the notebook's board.
C13_IfEqualsOmit ==
  /\ Cell30Adds = FixingIf(board)
  /\ eval_out.done =>
       /\ eval_out.ifForm <=> eval_out.givensOnly
       /\ (eval_out.general /\ eval_out.ifForm)
            <=> (eval_out.general /\ eval_out.givensOnly)

\* A blank box of the notebook's board given its solved value: the grid is
\* a model of both instances.
C13_Witness ==
  /\ eval_out.done
  /\ board[eval_in.i][eval_in.j] = 0
  /\ eval_in.given # 0
  /\ eval_out.general
  /\ eval_out.ifForm
  /\ eval_out.givensOnly

(***************************************************************************)
(* Coverage of the grid by the Distinct constraints of cell 27.            *)
(***************************************************************************)
\* The Distinct constraints among the assertions A, in the order added.
DistinctsOf(A) == SelectSeq(A, LAMBDA c : c.k = "distinct")

\* The positions, among the Distinct constraints D, of those that mention
\* the box (r, c).
Covering(D, r, c) == {n \in DOMAIN D : boxes(r, c) \in D[n]}

\* C14: cell 27 adds 9 row, 9 column and 9 block Distinct constraints of 9
\* boxes each, in this order; every box (r, c) is in exactly one constraint
\* of each kind: the r-th row constraint, the c-th column constraint and the
\* block constraint built for (i0, j0) = (r div 3, c div 3).
C14_DistinctCoverage ==
  s_solver.assertions # <<>> =>
    LET A == DistinctsOf(s_solver.assertions)
        D == [n \in DOMAIN A |-> SeqSet(A[n].vs)]
    IN  /\ Len(A) = 27
        /\ \A n \in 1..27 : Len(A[n].vs) = 9 /\ Cardinality(D[n]) = 9
        /\ \A r, c \in 0..8 :
             Covering(D, r, c) =
               {r + 1, 9 + c + 1, 18 + 3 * (r \div 3) + (c \div 3) + 1}

\* Cell 27 has run and cell 30 has not.
C14_Witness ==
  /\ pc = "cell30"
  /\ s_solver.assertions = Cell27Adds

(***************************************************************************)
(* Independence of the solvers.                                            *)
(***************************************************************************)
\* A step that changes the assertions of one solver leaves every other
\* solver as it was; a step that binds nq_solver to a new solver leaves the
\* solvers already in solutions as they were.
SolversFrame ==
  /\ ca_solver'.assertions # ca_solver.assertions =>
       UNCHANGED <<mc_solver, nq_solver, solutions, s_solver>>
  /\ mc_solver'.assertions # mc_solver.assertions =>
       UNCHANGED <<ca_solver, nq_solver, solutions, s_solver>>
  /\ s_solver'.assertions # s_solver.assertions =>
       UNCHANGED <<ca_solver, mc_solver, nq_solver, solutions>>
  /\ nq_solver' # nq_solver =>
       /\ UNCHANGED <<ca_solver, mc_solver, s_solver>>
       /\ Len(solutions') >= Len(solutions)
       /\ SubSeq(solutions', 1, Len(solutions)) = solutions

\* Once cell 7 has added T != 0 to ca_solver and cell 17 has run, mc_solver
\* holds no constraint T != 0 and has a model with T = 0.
RegionTFree ==
  /\ NeqConst("T", 0) \in SeqSet(ca_solver.assertions)
  /\ Len(mc_solver.assertions) = Len(MCInstance)
  => /\ NeqConst("T", 0) \notin SeqSet(mc_solver.assertions)
     /\ \E m \in ModelsOf(mc_solver.assertions) : m["T"] = 0

\* C15: adding a constraint to one solver leaves the constraints of every
\* other solver unchanged, also for the name T that ca_solver and mc_solver
\* share: T != 0 of ca_solver does not restrict the region T, and the
\* map-colouring instance has models with T = 0.
C15_Independent == [] RegionTFree /\ [][SolversFrame]_vars

\* The recorded run: T = 6 in the sum, Tasmania printed Blue (T = 0).
C15_Witness ==
  /\ ca_solver.result = "sat"
  /\ ca_solver.model["T"] # 0
  /\ mc_solver.result = "sat"
  /\ mc_solver.model["T"] = 0
  /\ stdout[18] = RecordedStdout18

(***************************************************************************)
(* Lifecycle of a solver: populated, then checked once.                    *)
(***************************************************************************)
\* check() has been called on s at most once, and s has a result exactly
\* when it has been called.
AtMostOnce(s) == s.checks <= 1 /\ (s.checks = 0 <=> s.result = "none")

\* No step adds to a solver that has been checked; the solvers recorded in
\* solutions are left as they were; nq_solver is only ever bound to a new
\* solver holding nqueens(N), checked once.
NoAddAfterCheck ==
  /\ ca_solver.checks > 0 => ca_solver'.assertions = ca_solver.assertions
  /\ mc_solver.checks > 0 => mc_solver'.assertions = mc_solver.assertions
  /\ s_solver.checks > 0 => s_solver'.assertions = s_solver.assertions
  /\ Len(solutions') >= Len(solutions)
  /\ SubSeq(solutions', 1, Len(solutions)) = solutions
  /\ nq_solver' # nq_solver =>
       /\ nq_solver'.checks = 1
       /\ \E N \in 1..MaxN : nq_solver'.assertions = nqueens(N)

\* In every state each solver has been checked at most once; when the last
\* cell has run, each of them exactly once, one solver per size.
CheckedOnce ==
  /\ AtMostOnce(ca_solver)
  /\ AtMostOnce(mc_solver)
  /\ AtMostOnce(s_solver)
  /\ AtMostOnce(nq_solver)
  /\ \A n \in DOMAIN solutions : solutions[n].checks = 1
  /\ pc = "done" =>
       /\ ca_solver.checks = 1
       /\ mc_solver.checks = 1
       /\ s_solver.checks = 1
       /\ Len(solutions) = Len(sizes)
       /\ \A n \in DOMAIN solutions : solutions[n].assertions = nqueens(sizes[n])

ValidPlacements ==
  [N \in 1..MaxN |->
     UNION {IF ValidPlacement(p, N) THEN {p} ELSE {} :
              p \in [{"Q_" \o ToString(i) : i \in 1..N} -> 1..N]}]

\* C17: every valid placement of N queens satisfies all constraints of the
\* solver nqueens(N) built by the benchmark loop; the instance has a model
\* for N = 1 and N >= 4 and none for N = 2 and N = 3, so check() never
\* answers unsat for the former nor sat for the latter.
C17_QueensComplete ==
  \A n \in DOMAIN solutions :
    LET N == sizes[n]
        A == solutions[n].assertions
    IN  /\ \A p \in ValidPlacements[N] : Satisfies(A, p)
        /\ ModelsOf(A) # {} <=> N \notin {2, 3}
        /\ solutions[n].result = "sat" => N \notin {2, 3}
        /\ solutions[n].result = "unsat" => N \in {2, 3}

\* A loop over an unsatisfiable size and then a satisfiable one.
C17_Witness ==
  /\ Len(solutions) = 2
  /\ sizes[1] \in {2, 3}
  /\ solutions[1].result = "unsat"
  /\ sizes[2] >= 4
  /\ solutions[2].result = "sat"
  /\ solutions[2].model \in ValidPlacements[sizes[2]]

(***************************************************************************)
(* The carries of the chain.                                               *)
(***************************************************************************)
\* C18: no range bound is ever added for carry_1, carry_2, carry_3, yet in
\* every model of the cryptarithmetic instance each of them is 0 or 1, and
\* F = carry_3 = 1.
C18_CarriesBinary ==
  /\ \A n \in DOMAIN ca_solver.assertions :
       \A v \in Carries : ~IsBound(ca_solver.assertions[n], v)
  /\ ca_solver.result = "sat" =>
       /\ \A v \in Carries : ca_solver.model[v] \in {0, 1}
       /\ ca_solver.model["F"] = 1
       /\ ca_solver.model["carry_3"] = 1

\* A model with a column that carries and one that does not.
C18_Witness ==
  /\ ca_solver.result = "sat"
  /\ Carries \subseteq DOMAIN ca_solver.model
  /\ ca_solver.model["carry_1"] = 0
  /\ ca_solver.model["carry_2"] = 1

(***************************************************************************)
(* The palette lookup of cell 18.                                          *)
(***************************************************************************)
ColourNames == {"Blue", "Red", "Green"}

\* C19: for every model of mc_solver and every one of the seven regions, T
\* included, the value written as a decimal string is a key of colors, so
\* cell 18 never raises KeyError and prints each region with exactly one of
\* Blue, Red, Green.
C19_LookupTotal ==
  /\ error.etype # "KeyError"
  /\ mc_solver.result = "sat" =>
       \A i \in DOMAIN regions :
         /\ Str(mc_solver.model[regions[i]]) \in {"0", "1", "2"}
         /\ Str(mc_solver.model[regions[i]]) \in DOMAIN colors
         /\ colors[Str(mc_solver.model[regions[i]])] \in ColourNames
  /\ mc_solver.reads > 0 =>
       /\ mc_solver.reads = Len(regions)
       /\ Len(stdout[18]) = Len(regions)
       /\ \A i \in DOMAIN printed :
            stdout[18][i] \in {printed[i] \o "=" \o c : c \in ColourNames}

\* A model that uses all three colours, printed by cell 18.
C19_Witness ==
  /\ mc_solver.result = "sat"
  /\ {mc_solver.model[regions[i]] : i \in DOMAIN regions} = {0, 1, 2}
  /\ Len(stdout[18]) = 7
  /\ stdout[18][7] \in {"T=" \o c : c \in ColourNames}

(***************************************************************************)
(* Uniqueness of the Sudoku's solution.                                    *)
(***************************************************************************)
\* C20: the Sudoku instance built from the board has exactly one model, so
\* whichever model check() picks, cell 31 prints the same grid on every
\* run.
C20_SudokuUnique ==
  /\ Len(s_solver.assertions) = Len(SudokuInstance) =>
       Cardinality(ModelsOf(s_solver.assertions)) = 1
  /\ s_solver.result = "sat" => s_solver.model = SudokuSolution
  /\ stdout[31] # <<>> => stdout[31] = RecordedStdout31

\* A complete run: all 81 boxes read and the grid printed.
C20_Witness ==
  /\ pc = "done"
  /\ s_solver.reads = 81
  /\ stdout[31] = RecordedStdout31

====
